---------------------------- MODULE Spec2Model ----------------------------
(***************************************************************************)
(* A model of skype2md.py: the conversion of one conversation of a chat    *)
(* export (messages.json, media/) into a Markdown transcript.              *)
(*                                                                         *)
(* Text is modelled as Python models it: a str is a sequence of characters *)
(* (here a tuple of one-character strings), so that parsing, formatting,   *)
(* case folding and the regular-expression substitutions are computed on   *)
(* characters and not assumed.  A datetime is the record of its fields;    *)
(* the host's time zone is a fixed offset from UTC chosen per run.         *)
(***************************************************************************)
EXTENDS Integers, Sequences, FiniteSets, TLC

-----------------------------------------------------------------------------
(* Characters and strings                                                  *)

Digits == {"0", "1", "2", "3", "4", "5", "6", "7", "8", "9"}

DigitVal(c) ==
    CASE c = "0" -> 0 [] c = "1" -> 1 [] c = "2" -> 2 [] c = "3" -> 3
      [] c = "4" -> 4 [] c = "5" -> 5 [] c = "6" -> 6 [] c = "7" -> 7
      [] c = "8" -> 8 [] c = "9" -> 9

DigitChar(n) ==
    CASE n = 0 -> "0" [] n = 1 -> "1" [] n = 2 -> "2" [] n = 3 -> "3"
      [] n = 4 -> "4" [] n = 5 -> "5" [] n = 6 -> "6" [] n = 7 -> "7"
      [] n = 8 -> "8" [] n = 9 -> "9"

(* str.lower() on one character (ASCII letters; others are unchanged).     *)
LowerChar(c) ==
    CASE c = "A" -> "a" [] c = "B" -> "b" [] c = "C" -> "c" [] c = "D" -> "d"
      [] c = "E" -> "e" [] c = "F" -> "f" [] c = "G" -> "g" [] c = "H" -> "h"
      [] c = "I" -> "i" [] c = "J" -> "j" [] c = "K" -> "k" [] c = "L" -> "l"
      [] c = "M" -> "m" [] c = "N" -> "n" [] c = "O" -> "o" [] c = "P" -> "p"
      [] c = "Q" -> "q" [] c = "R" -> "r" [] c = "S" -> "s" [] c = "T" -> "t"
      [] c = "U" -> "u" [] c = "V" -> "v" [] c = "W" -> "w" [] c = "X" -> "x"
      [] c = "Y" -> "y" [] c = "Z" -> "z" [] OTHER -> c

Lower(s) == [k \in 1..Len(s) |-> LowerChar(s[k])]

(* s[a..b] as a string; the empty string when b < a.                       *)
Slice(s, a, b) == IF b < a THEN << >> ELSE SubSeq(s, a, b)

(* TRUE iff pat occurs in s at (1-based) position p.                       *)
OccursAt(s, pat, p) ==
    /\ p >= 1
    /\ p + Len(pat) - 1 <= Len(s)
    /\ \A k \in 1..Len(pat) : s[p + k - 1] = pat[k]

(* str.find(pat, from): the first position >= from where pat occurs, or 0  *)
(* (Python's -1) when it occurs nowhere.                                   *)
Find(s, pat, from) ==
    LET hits == {p \in from..(Len(s) - Len(pat) + 1) : OccursAt(s, pat, p)}
    IN  IF hits = {} THEN 0 ELSE CHOOSE p \in hits : \A q \in hits : p <= q

Contains(s, pat) == Find(s, pat, 1) # 0

StartsWith(s, pat) == OccursAt(s, pat, 1)

(* The number of (possibly overlapping) occurrences of pat in s.           *)
Count(s, pat) == Cardinality({p \in 1..Len(s) : OccursAt(s, pat, p)})

RECURSIVE Concat(_)
Concat(ss) == IF ss = << >> THEN << >> ELSE Head(ss) \o Concat(Tail(ss))

(* sep.join(ss) *)
RECURSIVE Join(_, _)
Join(sep, ss) ==
    IF ss = << >> THEN << >>
    ELSE IF Len(ss) = 1 THEN ss[1]
    ELSE ss[1] \o sep \o Join(sep, Tail(ss))

(* The length of the run of decimal digits of s that starts at p.          *)
RECURSIVE DigitRun(_, _)
DigitRun(s, p) ==
    IF p <= Len(s) /\ s[p] \in Digits THEN 1 + DigitRun(s, p + 1) ELSE 0

(* The value of the decimal digits s[p..p+n-1].                            *)
RECURSIVE DigitsValue(_, _, _)
DigitsValue(s, p, n) ==
    IF n = 0 THEN 0
    ELSE 10 * DigitsValue(s, p, n - 1) + DigitVal(s[p + n - 1])

(* n written in decimal, zero-padded to at least w characters ("%0wd").    *)
RECURSIVE Decimal(_, _)
Decimal(n, w) ==
    IF n < 10 /\ w <= 1 THEN <<DigitChar(n)>>
    ELSE Decimal(n \div 10, w - 1) \o <<DigitChar(n % 10)>>

-----------------------------------------------------------------------------
(* datetime: the proleptic Gregorian calendar of Python's datetime module  *)

(* None, where the program holds a datetime or None.  Every field is 0, so *)
(* it differs from every datetime (a datetime's year is at least 1).       *)
NoneDT ==
    [year |-> 0, month |-> 0, day |-> 0,
     hour |-> 0, minute |-> 0, second |-> 0, microsecond |-> 0]

(* datetime.min, 0001-01-01 00:00:00 *)
DatetimeMin ==
    [year |-> 1, month |-> 1, day |-> 1,
     hour |-> 0, minute |-> 0, second |-> 0, microsecond |-> 0]

IsLeap(y) == y % 4 = 0 /\ (y % 100 # 0 \/ y % 400 = 0)

DaysInMonth(y, m) ==
    IF m = 2 THEN (IF IsLeap(y) THEN 29 ELSE 28)
    ELSE IF m \in {4, 6, 9, 11} THEN 30 ELSE 31

DaysBeforeYear(y) ==
    (y - 1) * 365 + ((y - 1) \div 4) - ((y - 1) \div 100) + ((y - 1) \div 400)

RECURSIVE DaysBeforeMonth(_, _)
DaysBeforeMonth(y, m) ==
    IF m = 1 THEN 0 ELSE DaysBeforeMonth(y, m - 1) + DaysInMonth(y, m - 1)

(* date.toordinal(): 0001-01-01 is day 1.                                  *)
Ymd2Ord(y, m, d) == DaysBeforeYear(y) + DaysBeforeMonth(y, m) + d

(* date.max.toordinal(), 9999-12-31 *)
MaxOrdinal == Ymd2Ord(9999, 12, 31)

(* The year that holds ordinal n.                                          *)
YearOfOrd(n) ==
    LET guess == ((n - 1) \div 366) + 1
        RECURSIVE up(_)
        up(y) == IF DaysBeforeYear(y + 1) < n THEN up(y + 1) ELSE y
    IN  up(guess)

RECURSIVE MonthOfDay(_, _, _)
MonthOfDay(y, m, k) ==
    IF k <= DaysInMonth(y, m) THEN m ELSE MonthOfDay(y, m + 1, k - DaysInMonth(y, m))

(* date.fromordinal(n) with a time of day of sec seconds and us microseconds *)
FromOrd(n, sec, us) ==
    LET y == YearOfOrd(n)
        k == n - DaysBeforeYear(y)
        m == MonthOfDay(y, 1, k)
    IN  [year |-> y, month |-> m, day |-> k - DaysBeforeMonth(y, m),
         hour |-> sec \div 3600, minute |-> (sec % 3600) \div 60,
         second |-> sec % 60, microsecond |-> us]

ToOrd(dt) == Ymd2Ord(dt.year, dt.month, dt.day)

SecOfDay(dt) == dt.hour * 3600 + dt.minute * 60 + dt.second

(* dt1 < dt2 and dt1 <= dt2, as datetime compares: field by field.         *)
DtLess(a, b) ==
    LET ka == <<ToOrd(a), SecOfDay(a), a.microsecond>>
        kb == <<ToOrd(b), SecOfDay(b), b.microsecond>>
    IN  \/ ka[1] < kb[1]
        \/ ka[1] = kb[1] /\ ka[2] < kb[2]
        \/ ka[1] = kb[1] /\ ka[2] = kb[2] /\ ka[3] < kb[3]

DtLeq(a, b) == ~DtLess(b, a)

(* b - a as a normalised timedelta: 0 <= seconds < 86400 and               *)
(* 0 <= microseconds < 10^6, the sign carried by days.                     *)
TimeDelta(a, b) ==
    LET us   == b.microsecond - a.microsecond
        sec  == SecOfDay(b) - SecOfDay(a) + (us \div 1000000)
        days == ToOrd(b) - ToOrd(a) + (sec \div 86400)
    IN  [days |-> days, seconds |-> sec % 86400, microseconds |-> us % 1000000]

-----------------------------------------------------------------------------
(* datetime.strptime, parse_iso_to_local and format_dt                     *)

(* The two formats of parse_iso_to_local, as format items: a directive is  *)
(* a two-character string, anything else is a literal character.           *)
FmtFraction ==
    <<"%Y", "-", "%m", "-", "%d", "T", "%H", ":", "%M", ":", "%S", ".", "%f", "Z">>

FmtWhole ==
    <<"%Y", "-", "%m", "-", "%d", "T", "%H", ":", "%M", ":", "%S", "Z">>

fmts == <<FmtFraction, FmtWhole>>

(* The number of characters directive d matches at position p of s, or 0   *)
(* when it matches none.  Every directive of the two formats is followed   *)
(* by a literal that is no digit, so a directive can only match the whole  *)
(* run of digits at p, and matches it iff the run is in the language of    *)
(* the directive's regular expression in _strptime:                        *)
(*   %Y \d\d\d\d                       %H 2[0-3]|[0-1]\d|\d                *)
(*   %m 1[0-2]|0[1-9]|[1-9]            %M [0-5]\d|\d                       *)
(*   %d 3[0-1]|[1-2]\d|0[1-9]|[1-9]| [1-9]                                 *)
(*   %S 6[0-1]|[0-5]\d|\d              %f [0-9]{1,6}                       *)
DirectiveLen(s, p, d) ==
    LET n == DigitRun(s, p)
        v == DigitsValue(s, p, n)
    IN  CASE d = "%Y" -> IF n = 4 THEN 4 ELSE 0
          [] d = "%m" -> IF (n = 2 /\ v \in 1..12) \/ (n = 1 /\ v \in 1..9)
                         THEN n ELSE 0
          [] d = "%d" -> IF (n = 2 /\ v \in 1..31) \/ (n = 1 /\ v \in 1..9) THEN n
                         ELSE IF /\ n = 0 /\ p <= Len(s) /\ s[p] = " "
                                 /\ DigitRun(s, p + 1) = 1
                                 /\ DigitVal(s[p + 1]) \in 1..9
                              THEN 2 ELSE 0
          [] d = "%H" -> IF (n = 2 /\ v \in 0..23) \/ n = 1 THEN n ELSE 0
          [] d = "%M" -> IF (n = 2 /\ v \in 0..59) \/ n = 1 THEN n ELSE 0
          [] d = "%S" -> IF (n = 2 /\ v \in 0..61) \/ n = 1 THEN n ELSE 0
          [] d = "%f" -> IF n \in 1..6 THEN n ELSE 0

(* The integer a directive's match stands for; %f is padded on the right   *)
(* with zeros to six digits (microseconds).                                *)
RECURSIVE Pow10(_)
Pow10(k) == IF k = 0 THEN 1 ELSE 10 * Pow10(k - 1)

DirectiveValue(s, p, len, d) ==
    IF d = "%f" THEN DigitsValue(s, p, len) * Pow10(6 - len)
    ELSE IF s[p] = " " THEN DigitVal(s[p + 1])
    ELSE DigitsValue(s, p, len)

(* The regular-expression match of format fmt (from item k on) against s   *)
(* from position p, compiled with IGNORECASE; acc maps the directives      *)
(* matched so far to their values.  The whole of s must be consumed        *)
(* ("unconverted data remains" otherwise).                                 *)
RECURSIVE MatchFormat(_, _, _, _, _)
MatchFormat(s, p, fmt, k, acc) ==
    IF k > Len(fmt) THEN [ok |-> p = Len(s) + 1, val |-> acc]
    ELSE IF Len(fmt[k]) = 2
    THEN LET len == DirectiveLen(s, p, fmt[k])
         IN  IF len = 0 THEN [ok |-> FALSE, val |-> acc]
             ELSE MatchFormat(s, p + len, fmt, k + 1,
                              [acc EXCEPT ![fmt[k]] = DirectiveValue(s, p, len, fmt[k])])
    ELSE IF p <= Len(s) /\ LowerChar(s[p]) = LowerChar(fmt[k])
         THEN MatchFormat(s, p + 1, fmt, k + 1, acc)
         ELSE [ok |-> FALSE, val |-> acc]

NoFields ==
    [d \in {"%Y", "%m", "%d", "%H", "%M", "%S", "%f"} |-> 0]

(* datetime.strptime(ts, fmt): the datetime, or NoneDT for ValueError (no  *)
(* match, or fields the datetime constructor rejects: year 0, a day the    *)
(* month does not have, second 60 or 61).                                  *)
Strptime(ts, fmt) ==
    LET m == MatchFormat(ts, 1, fmt, 1, NoFields)
        f == m.val
    IN  IF /\ m.ok
           /\ f["%Y"] >= 1
           /\ f["%d"] <= DaysInMonth(f["%Y"], f["%m"])
           /\ f["%S"] <= 59
        THEN [year |-> f["%Y"], month |-> f["%m"], day |-> f["%d"],
              hour |-> f["%H"], minute |-> f["%M"], second |-> f["%S"],
              microsecond |-> f["%f"]]
        ELSE NoneDT

(* dt_utc.replace(tzinfo=utc).astimezone(tz=None).replace(tzinfo=None) in  *)
(* a host whose local time is utcoffset seconds east of UTC.  raised is    *)
(* OverflowError: the local date is outside 0001-01-01 .. 9999-12-31.      *)
Astimezone(dt_utc, utcoffset) ==
    LET sec == SecOfDay(dt_utc) + utcoffset
        ord == ToOrd(dt_utc) + (sec \div 86400)
    IN  IF ord < 1 \/ ord > MaxOrdinal
        THEN [raised |-> TRUE, dt |-> NoneDT]
        ELSE [raised |-> FALSE, dt |-> FromOrd(ord, sec % 86400, dt_utc.microsecond)]

(* parse_iso_to_local(ts): the first format that parses wins; None when    *)
(* neither does.  Only ValueError is caught, so the OverflowError of       *)
(* astimezone leaves the function.                                         *)
RECURSIVE ParseFrom(_, _, _)
ParseFrom(ts, utcoffset, k) ==
    IF k > Len(fmts) THEN [raised |-> FALSE, dt |-> NoneDT]
    ELSE LET dt_utc == Strptime(ts, fmts[k])
         IN  IF dt_utc = NoneDT THEN ParseFrom(ts, utcoffset, k + 1)
             ELSE Astimezone(dt_utc, utcoffset)

parse_iso_to_local(ts, utcoffset) == ParseFrom(ts, utcoffset, 1)

(* A slip: the timestamp is written in the format it was read in.          *)
format_dt_iso(dt, ywidth) ==
    Decimal(dt.year, ywidth) \o <<"-">> \o Decimal(dt.month, 2) \o <<"-">>
        \o Decimal(dt.day, 2) \o <<"T">> \o Decimal(dt.hour, 2) \o <<":">>
        \o Decimal(dt.minute, 2) \o <<":">> \o Decimal(dt.second, 2) \o <<"Z">>

(* format_dt(dt) = dt.strftime("%Y-%m-%d %H:%M:%S").  ywidth is the width  *)
(* the host's strftime pads %Y to: 4, or 1 (glibc writes year 999 as       *)
(* "999").                                                                 *)
format_dt(dt, ywidth) ==
    Decimal(dt.year, ywidth) \o <<"-">> \o Decimal(dt.month, 2) \o <<"-">>
        \o Decimal(dt.day, 2) \o <<" ">> \o Decimal(dt.hour, 2) \o <<":">>
        \o Decimal(dt.minute, 2) \o <<":">> \o Decimal(dt.second, 2)

-----------------------------------------------------------------------------
(* is_probably_system_id and the choice of the sender's display name       *)

(* None, where the program holds a str or None (a JSON null or an absent   *)
(* key): a one-element tuple that is no string of characters.              *)
None == <<"None">>

(* Python's truth value of a str or None.                                  *)
Truthy(s) == s # None /\ s # << >>

(* A slip: the id of the conversation is not compared.                     *)
is_probably_system_id_no_conv(sender_id, conversation_id) ==
    \/ ~Truthy(sender_id)
    \/ /\ StartsWith(Lower(sender_id), <<"1", "9", ":">>)
       /\ Contains(Lower(sender_id), <<"@", "t", "h", "r", "e", "a", "d">>)

is_probably_system_id(sender_id, conversation_id) ==
    IF ~Truthy(sender_id) THEN TRUE
    ELSE LET sender_id_lower == Lower(sender_id)
             conv_id_lower   == Lower(IF Truthy(conversation_id)
                                      THEN conversation_id ELSE << >>)
         IN  IF sender_id_lower = conv_id_lower THEN TRUE
             ELSE IF /\ StartsWith(sender_id_lower, <<"1", "9", ":">>)
                     /\ Contains(sender_id_lower, <<"@", "t", "h", "r", "e", "a", "d">>)
                  THEN TRUE
                  ELSE FALSE

(* A slip: a declared name is kept, whoever the sender is.                 *)
SenderDispDeclaredFirst(msg, user_id, conversation_id) ==
    IF Truthy(msg.displayName) THEN msg.displayName
    ELSE IF msg.from = user_id THEN <<"Y", "o", "u">>
    ELSE IF is_probably_system_id(msg.from, conversation_id) THEN <<"S", "y", "s", "t", "e", "m">>
    ELSE msg.from

(* Lines 190-198 of main: msg.get("displayName") or sender_id, then the    *)
(* overrides "You" and "System".                                           *)
SenderDisp(msg, user_id, conversation_id) ==
    LET sender_id == msg.from
        declared  == IF Truthy(msg.displayName) THEN msg.displayName ELSE sender_id
    IN  IF sender_id = user_id THEN <<"Y", "o", "u">>
        ELSE IF is_probably_system_id(sender_id, conversation_id) THEN <<"S", "y", "s", "t", "e", "m">>
        ELSE declared

-----------------------------------------------------------------------------
(* Regular expressions.  Every pattern of the program is a chain of        *)
(* literals separated by lazy gaps, lit1 .*? lit2 .*? ... litn (the        *)
(* [^>]* of the bold, italic and strikethrough patterns is a gap that ends *)
(* at the first ">").  A lazy gap takes the first occurrence of the next   *)
(* literal: if the rest of the chain cannot be found after the first       *)
(* occurrence it cannot be found after a later one, so backtracking never  *)
(* changes the match.  Without DOTALL a gap cannot hold a newline.         *)

RECURSIVE ChainFrom(_, _, _, _, _, _)
ChainFrom(s, from, lits, k, acc, dotall) ==
    IF k > Len(lits) THEN [ok |-> TRUE, pos |-> acc, end |-> from]
    ELSE LET q == Find(s, lits[k], from)
         IN  IF q = 0 \/ (~dotall /\ Contains(Slice(s, from, q - 1), <<"\n">>))
             THEN [ok |-> FALSE, pos |-> acc, end |-> from]
             ELSE ChainFrom(s, q + Len(lits[k]), lits, k + 1, Append(acc, q), dotall)

(* The match of the chain that starts at position p, if there is one:      *)
(* pos[k] is where the k-th literal matched, end is the position after the *)
(* match.                                                                  *)
ChainAt(s, p, lits, dotall) ==
    IF OccursAt(s, lits[1], p)
    THEN ChainFrom(s, p + Len(lits[1]), lits, 2, <<p>>, dotall)
    ELSE [ok |-> FALSE, pos |-> << >>, end |-> p]

(* re.search from position from: the leftmost match.                       *)
RECURSIVE Search(_, _, _, _)
Search(s, from, lits, dotall) ==
    LET p == Find(s, lits[1], from)
    IN  IF p = 0 THEN [ok |-> FALSE, pos |-> << >>, end |-> from]
        ELSE LET m == ChainAt(s, p, lits, dotall)
             IN  IF m.ok THEN m ELSE Search(s, p + 1, lits, dotall)

(* The matches re.sub and re.findall work on: leftmost first, none         *)
(* overlapping another.                                                    *)
RECURSIVE FindAll(_, _, _, _)
FindAll(s, from, lits, dotall) ==
    LET m == Search(s, from, lits, dotall)
    IN  IF m.ok THEN <<m>> \o FindAll(s, m.end, lits, dotall) ELSE << >>

(* The text of the gap between the k-th literal and the next one.          *)
Gap(s, m, lits, k) == Slice(s, m.pos[k] + Len(lits[k]), m.pos[k + 1] - 1)

(* s with the k-th match of ms replaced by repls[k], for every k.          *)
RECURSIVE Replaced(_, _, _, _, _)
Replaced(s, ms, repls, k, from) ==
    IF k > Len(ms) THEN Slice(s, from, Len(s))
    ELSE Slice(s, from, ms[k].pos[1] - 1) \o repls[k]
             \o Replaced(s, ms, repls, k + 1, ms[k].end)

(* str.strip() and str.replace("\n", "\n> ") *)
Whitespace == {" ", "\n", "\t", "\r"}

RECURSIVE Strip(_)
Strip(s) ==
    IF s = << >> THEN s
    ELSE IF s[1] \in Whitespace THEN Strip(Tail(s))
    ELSE IF s[Len(s)] \in Whitespace THEN Strip(SubSeq(s, 1, Len(s) - 1))
    ELSE s

RECURSIVE QuoteNewlines(_)
QuoteNewlines(s) ==
    IF s = << >> THEN s
    ELSE (IF s[1] = "\n" THEN <<"\n", ">", " ">> ELSE <<s[1]>>) \o QuoteNewlines(Tail(s))

-----------------------------------------------------------------------------
(* convert_rich_text and its patterns                                      *)

quote_pattern == << <<"<", "q", "u", "o", "t", "e">>, <<"a", "u", "t", "h", "o", "r", "n", "a", "m", "e", "=", "\"">>, <<"\"">>, <<">">>, <<"<", "/", "q", "u", "o", "t", "e", ">">> >>

legacyquote_pattern == << <<"<", "l", "e", "g", "a", "c", "y", "q", "u", "o", "t", "e", ">">>, <<"<", "/", "l", "e", "g", "a", "c", "y", "q", "u", "o", "t", "e", ">">> >>

convert_quote(s, m) ==
    LET author == Gap(s, m, quote_pattern, 2)
        body   == Gap(s, m, quote_pattern, 4)
        lq     == FindAll(body, 1, legacyquote_pattern, TRUE)
        text   == Strip(Replaced(body, lq, [k \in 1..Len(lq) |-> << >>], 1, 1))
    IN  <<">", " ", "*", "*", "Q", "u", "o", "t", "e", "d", " ", "f", "r", "o", "m", " ">> \o author \o <<"*", "*", "\n", ">", " ">> \o QuoteNewlines(text)

partlist_pattern == << <<"<", "p", "a", "r", "t", "l", "i", "s", "t">>, <<">">>, <<"<", "/", "p", "a", "r", "t", "l", "i", "s", "t", ">">> >>

part_pattern ==
    << <<"<", "p", "a", "r", "t">>, <<"i", "d", "e", "n", "t", "i", "t", "y", "=", "\"">>, <<"\"">>, <<"<", "n", "a", "m", "e", ">">>, <<"<", "/", "n", "a", "m", "e", ">">>,
       <<"<", "d", "u", "r", "a", "t", "i", "o", "n", ">">>, <<"<", "/", "d", "u", "r", "a", "t", "i", "o", "n", ">">>, <<"<", "/", "p", "a", "r", "t", ">">> >>

convert_partlist(s, m) ==
    LET inside == Gap(s, m, partlist_pattern, 2)
        parts  == FindAll(inside, 1, part_pattern, TRUE)
        lines  == << <<"*", "*", "C", "a", "l", "l", " ", "e", "n", "d", "e", "d", "*", "*">> >> \o
                  [k \in 1..Len(parts) |->
                      <<"-", " ">> \o Gap(inside, parts[k], part_pattern, 4) \o <<" ", "(">>
                          \o Gap(inside, parts[k], part_pattern, 6) \o <<"s", ")">>]
    IN  Join(<<"\n">>, lines)

emoji_pattern == << <<"<", "s", "s">>, <<"u", "t", "f", "=", "\"">>, <<"\"">>, <<">">>, <<"<", "/", "s", "s", ">">> >>

convert_emoji(s, m) == Gap(s, m, emoji_pattern, 2)

addmember_pattern == << <<"<", "a", "d", "d", "m", "e", "m", "b", "e", "r", ">">>, <<"<", "/", "a", "d", "d", "m", "e", "m", "b", "e", "r", ">">> >>

initiator_pattern == << <<"<", "i", "n", "i", "t", "i", "a", "t", "o", "r", ">">>, <<"<", "/", "i", "n", "i", "t", "i", "a", "t", "o", "r", ">">> >>

eventtime_pattern == << <<"<", "e", "v", "e", "n", "t", "t", "i", "m", "e", ">">>, <<"<", "/", "e", "v", "e", "n", "t", "t", "i", "m", "e", ">">> >>

rosterver_pattern == << <<"<", "r", "o", "s", "t", "e", "r", "V", "e", "r", "s", "i", "o", "n", ">">>, <<"<", "/", "r", "o", "s", "t", "e", "r", "V", "e", "r", "s", "i", "o", "n", ">">> >>

target_pattern == << <<"<", "t", "a", "r", "g", "e", "t", ">">>, <<"<", "/", "t", "a", "r", "g", "e", "t", ">">> >>

(* The four inner patterns are used without DOTALL.                        *)
convert_addmember(s, m) ==
    LET inside    == Gap(s, m, addmember_pattern, 1)
        initiator == Search(inside, 1, initiator_pattern, FALSE)
        eventtime == Search(inside, 1, eventtime_pattern, FALSE)
        rosterver == Search(inside, 1, rosterver_pattern, FALSE)
        found     == FindAll(inside, 1, target_pattern, FALSE)
        targets   == [k \in 1..Len(found) |-> Gap(inside, found[k], target_pattern, 1)]
        initiator_val == IF initiator.ok
                         THEN Gap(inside, initiator, initiator_pattern, 1)
                         ELSE <<"U", "n", "k", "n", "o", "w", "n">>
        eventtime_val == IF eventtime.ok
                         THEN Gap(inside, eventtime, eventtime_pattern, 1)
                         ELSE <<"N", "/", "A">>
        roster_val    == IF rosterver.ok
                         THEN Gap(inside, rosterver, rosterver_pattern, 1)
                         ELSE <<"N", "/", "A">>
        target_str    == IF targets # << >> THEN Join(<<",", " ">>, targets)
                         ELSE <<"N", "o", " ", "t", "a", "r", "g", "e", "t", "s">>
    IN  Join(<<"\n">>,
             << <<"*", "*", "A", "d", "d", "M", "e", "m", "b", "e", "r", " ", "E", "v", "e", "n", "t", "*", "*">>,
                <<"-", " ", "T", "i", "m", "e", ":", " ">> \o eventtime_val,
                <<"-", " ", "I", "n", "i", "t", "i", "a", "t", "o", "r", ":", " ">> \o initiator_val,
                <<"-", " ", "T", "a", "r", "g", "e", "t", "s", ":", " ">> \o target_str,
                <<"-", " ", "R", "o", "s", "t", "e", "r", "V", "e", "r", "s", "i", "o", "n", ":", " ">> \o roster_val >>)

(* <b[^>]*>(.*?)</b>, <i[^>]*>(.*?)</i> and <s[^>]*>(.*?)</s> *)
bold_pattern == << <<"<", "b">>, <<">">>, <<"<", "/", "b", ">">> >>

italic_pattern == << <<"<", "i">>, <<">">>, <<"<", "/", "i", ">">> >>

strikethrough_pattern == << <<"<", "s">>, <<">">>, <<"<", "/", "s", ">">> >>

convert_bold(s, m) == <<"*", "*">> \o Gap(s, m, bold_pattern, 2) \o <<"*", "*">>

convert_italic(s, m) == <<"*">> \o Gap(s, m, italic_pattern, 2) \o <<"*">>

convert_strikethrough(s, m) == <<"~", "~">> \o Gap(s, m, strikethrough_pattern, 2) \o <<"~", "~">>

(* pattern.sub(convert, content), one definition per substitution of       *)
(* convert_rich_text.                                                      *)
SubQuote(c) ==
    LET ms == FindAll(c, 1, quote_pattern, TRUE)
    IN  Replaced(c, ms, [k \in 1..Len(ms) |-> convert_quote(c, ms[k])], 1, 1)

SubPartlist(c) ==
    LET ms == FindAll(c, 1, partlist_pattern, TRUE)
    IN  Replaced(c, ms, [k \in 1..Len(ms) |-> convert_partlist(c, ms[k])], 1, 1)

SubAddmember(c) ==
    LET ms == FindAll(c, 1, addmember_pattern, TRUE)
    IN  Replaced(c, ms, [k \in 1..Len(ms) |-> convert_addmember(c, ms[k])], 1, 1)

SubEmoji(c) ==
    LET ms == FindAll(c, 1, emoji_pattern, TRUE)
    IN  Replaced(c, ms, [k \in 1..Len(ms) |-> convert_emoji(c, ms[k])], 1, 1)

SubBold(c) ==
    LET ms == FindAll(c, 1, bold_pattern, TRUE)
    IN  Replaced(c, ms, [k \in 1..Len(ms) |-> convert_bold(c, ms[k])], 1, 1)

SubItalic(c) ==
    LET ms == FindAll(c, 1, italic_pattern, TRUE)
    IN  Replaced(c, ms, [k \in 1..Len(ms) |-> convert_italic(c, ms[k])], 1, 1)

SubStrikethrough(c) ==
    LET ms == FindAll(c, 1, strikethrough_pattern, TRUE)
    IN  Replaced(c, ms, [k \in 1..Len(ms) |-> convert_strikethrough(c, ms[k])], 1, 1)

convert_rich_text(content) ==
    SubStrikethrough(SubItalic(SubBold(
        SubEmoji(SubAddmember(SubPartlist(SubQuote(content)))))))

-----------------------------------------------------------------------------
(* The media mapping and doc_id_to_md_link                                 *)

(* fname.split(".", 1)[0] *)
Base(fname) ==
    LET d == Find(fname, <<".">>, 1)
    IN  IF d = 0 THEN fname ELSE Slice(fname, 1, d - 1)

(* The dict the loop over os.listdir(media_dir) builds: a later file name  *)
(* with the same base replaces an earlier one.                             *)
RECURSIVE MediaFiles(_)
MediaFiles(listing) ==
    IF listing = << >> THEN << >>
    ELSE LET rest  == MediaFiles(SubSeq(listing, 1, Len(listing) - 1))
             fname == listing[Len(listing)]
             keep  == SelectSeq(rest, LAMBDA e : e[1] # Base(fname))
         IN  Append(keep, <<Base(fname), fname>>)

InMedia(media_files, doc_id) ==
    \E k \in 1..Len(media_files) : media_files[k][1] = doc_id

Lookup(media_files, doc_id) ==
    media_files[CHOOSE k \in 1..Len(media_files) : media_files[k][1] = doc_id][2]

(* os.path.splitext(fname)[1]: from the last dot on, unless only dots      *)
(* precede it.                                                             *)
Splitext(fname) ==
    LET dots == {p \in 1..Len(fname) : fname[p] = "."}
        last == CHOOSE p \in dots : \A q \in dots : q <= p
    IN  IF dots = {} THEN << >>
        ELSE IF \A p \in 1..(last - 1) : fname[p] = "." THEN << >>
        ELSE Slice(fname, last, Len(fname))

image_exts == { <<".", "p", "n", "g">>, <<".", "j", "p", "g">>, <<".", "j", "p", "e", "g">>, <<".", "g", "i", "f">>, <<".", "w", "e", "b", "p">> }

(* A slip: the extension is compared as it is written.                    *)
doc_id_to_md_link_cased(doc_id, media_files) ==
    IF ~InMedia(media_files, doc_id)
    THEN <<"[">> \o doc_id \o <<"]", "(", "m", "e", "d", "i", "a", "/">> \o doc_id \o <<")">>
    ELSE LET fname == Lookup(media_files, doc_id)
         IN  IF Splitext(fname) \in image_exts
             THEN <<"!", "[">> \o fname \o <<"]", "(", "m", "e", "d", "i", "a", "/">> \o fname \o <<")">>
             ELSE <<"[">> \o fname \o <<"]", "(", "m", "e", "d", "i", "a", "/">> \o fname \o <<")">>

doc_id_to_md_link(doc_id, media_files) ==
    IF ~InMedia(media_files, doc_id)
    THEN <<"[">> \o doc_id \o <<"]", "(", "m", "e", "d", "i", "a", "/">> \o doc_id \o <<")">>
    ELSE LET fname     == Lookup(media_files, doc_id)
             lower_ext == Lower(Splitext(fname))
         IN  IF lower_ext \in image_exts
             THEN <<"!", "[">> \o fname \o <<"]", "(", "m", "e", "d", "i", "a", "/">> \o fname \o <<")">>
             ELSE <<"[">> \o fname \o <<"]", "(", "m", "e", "d", "i", "a", "/">> \o fname \o <<")">>

(* Lines 200-207 of main: the content of a message that holds doc_id="..." *)
(* becomes the link of the first such id, and the content (replaced or     *)
(* not) goes through convert_rich_text.                                    *)
DocIdAttr == <<"d", "o", "c", "_", "i", "d", "=", "\"">>

ConvertContent(content, media_files) ==
    LET start == Find(content, DocIdAttr, 1) + Len(DocIdAttr)
        end   == Find(content, <<"\"">>, start)
        c1    == IF Contains(content, DocIdAttr) /\ end # 0
                 THEN doc_id_to_md_link(Slice(content, start, end - 1), media_files)
                 ELSE content
    IN  convert_rich_text(c1)

-----------------------------------------------------------------------------
(* The conversation prompt: int(choice) and convs[choice]                  *)

(* int(s) of the line read: surrounding whitespace is dropped, one sign is *)
(* allowed, the rest must be decimal digits (at least one).  ok = FALSE is *)
(* ValueError.                                                             *)
ParseInt(s) ==
    LET t      == Strip(s)
        signed == t # << >> /\ t[1] \in {"+", "-"}
        body   == IF signed THEN Tail(t) ELSE t
        good   == body # << >> /\ DigitRun(body, 1) = Len(body)
        mag    == IF good THEN DigitsValue(body, 1, Len(body)) ELSE 0
    IN  [ok |-> good, val |-> IF signed /\ t[1] = "-" THEN 0 - mag ELSE mag]

(* The 1-based position list indexing takes for index k of a list of n     *)
(* items: a negative k counts from the end.  0 is IndexError.              *)
ListIndex(k, n) ==
    IF k >= 0 /\ k < n THEN k + 1
    ELSE IF k < 0 /\ k >= 0 - n THEN n + k + 1
    ELSE 0

(* str(n) *)
Str(n) == IF n < 0 THEN <<"-">> \o Decimal(0 - n, 1) ELSE Decimal(n, 1)

(* str.replace(" ", "_") *)
Underscored(s) == [k \in 1..Len(s) |-> IF s[k] = " " THEN "_" ELSE s[k]]

-----------------------------------------------------------------------------
(* The message loop, the sort, the grouping and the merge of main          *)

(* One iteration of the loop of lines 186-209: the tuple appended to       *)
(* processed_msgs.  pos, the index of the message in MessageList, is no    *)
(* field of the program's tuple: it only names the message in the          *)
(* properties below and nothing is computed from it.                       *)
Processed(msg, pos, user_id, conversation_id, media_files, utcoffset) ==
    [dt          |-> parse_iso_to_local(msg.originalarrivaltime, utcoffset).dt,
     sender_id   |-> msg.from,
     sender_disp |-> SenderDisp(msg, user_id, conversation_id),
     content     |-> ConvertContent(IF Truthy(msg.content) THEN msg.content ELSE << >>,
                                    media_files),
     pos         |-> pos]

(* The key of processed_msgs.sort: x[0] if x[0] else datetime.min          *)
SortKey(x) == IF x.dt # NoneDT THEN x.dt ELSE DatetimeMin

(* list.sort(key=...): ascending by key and stable.  Computed by insertion *)
(* after the last item whose key is not greater.                           *)
RECURSIVE InsertByKey(_, _)
InsertByKey(sorted, x) ==
    IF sorted = << >> THEN <<x>>
    ELSE IF DtLess(SortKey(x), SortKey(sorted[Len(sorted)]))
         THEN Append(InsertByKey(SubSeq(sorted, 1, Len(sorted) - 1), x),
                     sorted[Len(sorted)])
         ELSE Append(sorted, x)

RECURSIVE SortByKey(_)
SortByKey(xs) ==
    IF xs = << >> THEN << >>
    ELSE InsertByKey(SortByKey(SubSeq(xs, 1, Len(xs) - 1)), xs[Len(xs)])

(* The item (msg_dt, content) a block holds for a message.                 *)
Item(x) == [dt |-> x.dt, content |-> x.content, pos |-> x.pos]

(* The grouping loop of lines 213-226, from message k on.  A block is      *)
(* (current_sender_name, current_block); sender is the block's sender      *)
(* identifier, which the program keeps in current_sender only.  The value  *)
(* is the state of the loop when it ends.                                  *)
RECURSIVE GroupLoop(_, _, _, _, _, _)
GroupLoop(msgs, k, grouped, current_sender, current_sender_name, current_block) ==
    IF k > Len(msgs)
    THEN [grouped |-> grouped,
          last |-> [sender |-> current_sender,
                    sender_name |-> current_sender_name,
                    block |-> current_block]]
    ELSE IF msgs[k].sender_id # current_sender
    THEN GroupLoop(msgs, k + 1,
                   IF current_block # << >>
                   THEN Append(grouped, [sender |-> current_sender,
                                         sender_name |-> current_sender_name,
                                         block |-> current_block])
                   ELSE grouped,
                   msgs[k].sender_id, msgs[k].sender_disp, <<Item(msgs[k])>>)
    ELSE GroupLoop(msgs, k + 1, grouped, current_sender, current_sender_name,
                   Append(current_block, Item(msgs[k])))

(* A slip: the block open when the loop ends is not appended.              *)
GroupedWithoutLast(msgs) == GroupLoop(msgs, 1, << >>, None, None, << >>).grouped

(* Lines 213-228: the loop, then the block still open is appended.         *)
Grouped(msgs) ==
    LET r == GroupLoop(msgs, 1, << >>, None, None, << >>)
    IN  IF r.last.block # << >> THEN Append(r.grouped, r.last) ELSE r.grouped

MERGE_SECONDS == 30

(* A slip: a difference of exactly MERGE_SECONDS still merges.             *)
DeltaWithinWindow(cur_dt, next_dt) ==
    LET delta == TimeDelta(cur_dt, next_dt)
    IN  \/ delta.days < 0
        \/ delta.days = 0 /\ delta.seconds < MERGE_SECONDS
        \/ delta = [days |-> 0, seconds |-> MERGE_SECONDS, microseconds |-> 0]

(* (next_dt - cur_dt).total_seconds() < MERGE_SECONDS, on the normalised   *)
(* timedelta: a negative difference has days < 0, a difference of a day or *)
(* more has days > 0.                                                      *)
DeltaBelowWindow(cur_dt, next_dt) ==
    LET delta == TimeDelta(cur_dt, next_dt)
    IN  \/ delta.days < 0
        \/ delta.days = 0 /\ delta.seconds < MERGE_SECONDS

(* The inner loop of lines 241-255 from item i of block on.  A merged      *)
(* entry is (cur_dt, sub_msgs); sub_msgs lists the items merged, of which  *)
(* the program keeps the content alone.                                    *)
RECURSIVE MergeLoop(_, _, _, _, _)
MergeLoop(block, i, merged_block, cur_dt, sub_msgs) ==
    IF i > Len(block)
    THEN Append(merged_block, [dt |-> cur_dt, sub_msgs |-> sub_msgs])
    ELSE LET next_dt == block[i].dt
         IN  IF ~(cur_dt # NoneDT /\ next_dt # NoneDT)
             THEN MergeLoop(block, i + 1,
                            Append(merged_block, [dt |-> cur_dt, sub_msgs |-> sub_msgs]),
                            next_dt, <<block[i]>>)
             ELSE IF DeltaBelowWindow(cur_dt, next_dt)
             THEN MergeLoop(block, i + 1, merged_block, cur_dt,
                            Append(sub_msgs, block[i]))
             ELSE MergeLoop(block, i + 1,
                            Append(merged_block, [dt |-> cur_dt, sub_msgs |-> sub_msgs]),
                            next_dt, <<block[i]>>)

MergedBlock(block) == MergeLoop(block, 2, << >>, block[1].dt, <<block[1]>>)

(* The outer loop of lines 233-258: empty blocks are skipped.              *)
RECURSIVE Merged(_)
Merged(grouped) ==
    IF grouped = << >> THEN << >>
    ELSE (IF grouped[1].block = << >> THEN << >>
          ELSE << [sender |-> grouped[1].sender,
                   sender_name |-> grouped[1].sender_name,
                   merged_block |-> MergedBlock(grouped[1].block)] >>)
         \o Merged(Tail(grouped))

-----------------------------------------------------------------------------
(* The text written to the output file, lines 262-278                      *)

(* text.split("\n") *)
RECURSIVE SplitLines(_)
SplitLines(s) ==
    LET nl == Find(s, <<"\n">>, 1)
    IN  IF nl = 0 THEN <<s>>
        ELSE <<Slice(s, 1, nl - 1)>> \o SplitLines(Slice(s, nl + 1, Len(s)))

(* The name a block is written under: str(None) is "None".                 *)
NameText(sender_name) == IF sender_name = None THEN <<"N", "o", "n", "e">> ELSE sender_name

EntryText(sender_name, entry, ywidth) ==
    LET head  == IF entry.dt # NoneDT
                 THEN <<"*", "*">> \o NameText(sender_name) \o <<" ", " ">>
                          \o format_dt(entry.dt, ywidth) \o <<":", "*", "*", "\n">>
                 ELSE <<"*", "*">> \o NameText(sender_name) \o <<" ", " ", "[", "N", "o", " ", "T", "i", "m", "e", "s", "t", "a", "m", "p", "]", ":", "*", "*", "\n">>
        lines == Concat([k \in 1..Len(entry.sub_msgs) |->
                     LET ls == SplitLines(entry.sub_msgs[k].content)
                     IN  Concat([j \in 1..Len(ls) |-> <<" ", " ">> \o ls[j] \o <<"\n">>])])
    IN  head \o lines \o <<"\n">>

OutputText(chat_name, merged_grouped, ywidth) ==
    <<"#", " ", "C", "h", "a", "t", " ", "E", "x", "p", "o", "r", "t", " ", "-", " ">> \o chat_name \o <<"\n", "\n">> \o
    Concat([idx \in 1..Len(merged_grouped) |->
        LET g == merged_grouped[idx]
        IN  Concat([k \in 1..Len(g.merged_block) |->
                       EntryText(g.sender_name, g.merged_block[k], ywidth)])
            \o (IF idx < Len(merged_grouped) THEN <<"\n">> ELSE << >>)])

-----------------------------------------------------------------------------
(* Inputs.  The archive, the media directory, the line typed at the prompt *)
(* and the host's settings are drawn from the families below; each family  *)
(* varies what one part of the program reads and fixes the rest.           *)

MaxMsgs == 3

MaxConvs == 2

Msg(ts, from, displayName, content) ==
    [originalarrivaltime |-> ts, from |-> from,
     displayName |-> displayName, content |-> content]

Conv(id, displayName, MessageList) ==
    [id |-> id, displayName |-> displayName, MessageList |-> MessageList]

Env(exists, userId, conversations, listdir, stdin, utcoffset, ywidth) ==
    [exists |-> exists, userId |-> userId, conversations |-> conversations,
     listdir |-> listdir, stdin |-> stdin, utcoffset |-> utcoffset,
     ywidth |-> ywidth]

(* os.path.isdir(media_dir) is false: a listing that is no list.           *)
NoDir == <<None>>

T00 == <<"2", "0", "2", "4", "-", "0", "3", "-", "0", "1", "T", "1", "0", ":", "0", "0", ":", "0", "0", "Z">>
T20 == <<"2", "0", "2", "4", "-", "0", "3", "-", "0", "1", "T", "1", "0", ":", "0", "0", ":", "2", "0", "Z">>
T30 == <<"2", "0", "2", "4", "-", "0", "3", "-", "0", "1", "T", "1", "0", ":", "0", "0", ":", "3", "0", ".", "0", "Z">>
T49 == <<"2", "0", "2", "4", "-", "0", "3", "-", "0", "1", "T", "1", "0", ":", "0", "0", ":", "4", "9", "Z">>
TMin == <<"0", "0", "0", "1", "-", "0", "1", "-", "0", "1", "T", "0", "0", ":", "0", "0", ":", "0", "0", "Z">>
TBad == <<"y", "e", "s", "t", "e", "r", "d", "a", "y">>

Letters == << <<"a">>, <<"b">>, <<"c">>, <<"d">>, <<"e">>, <<"f">> >>

(* Family 1: one conversation of up to MaxMsgs messages of two senders,    *)
(* with timestamps 20, 29 and 30 seconds apart and unparseable ones.  The  *)
(* content of a message is the letter of its position.                     *)
MergeTimes == {T00, T20, T30, T49, TBad}

MergeSenders == { <<"8", ":", "a", "l">>, <<"8", ":", "b", "o">> }

MergeLists ==
    UNION { { [k \in 1..n |-> Msg(ts[k], from[k], None, Letters[k])] :
                ts \in [1..n -> MergeTimes], from \in [1..n -> MergeSenders] } :
            n \in 1..MaxMsgs }

EnvMerge ==
    { Env(TRUE, <<"8", ":", "m", "e">>, << Conv(<<"1", "9", ":", "c", "@", "t", "h", "r", "e", "a", "d", ".", "v", "2">>, <<"M", "y", " ", "c", "h", "a", "t">>, ml) >>,
          NoDir, <<"0">>, 0, 4) : ml \in MergeLists }

(* Family 2: messages at datetime.min, the key the sort gives a message    *)
(* without a timestamp, and messages whose "from" is null.                 *)
EdgeLists ==
    UNION { { [k \in 1..n |-> Msg(ts[k], from[k], None, Letters[k])] :
                ts \in [1..n -> {TMin, TBad, T00}],
                from \in [1..n -> {None, <<"8", ":", "a", "l">>}] } : n \in 1..2 }

EnvEdge ==
    { Env(TRUE, <<"8", ":", "m", "e">>, << Conv(<<"1", "9", ":", "c", "@", "t", "h", "r", "e", "a", "d", ".", "v", "2">>, <<"M", "y", " ", "c", "h", "a", "t">>, ml) >>,
          NoDir, <<"0">>, off, 4) : ml \in EdgeLists, off \in {0, 19800} }

(* Family 3: one message; the archive's userId, the conversation's id and  *)
(* the message's sender and declared name vary.                            *)
UserIds == { << >>, <<"8", ":", "m", "e">>, <<"8", ":", "a", "l">>, <<"1", "9", ":", "c", "@", "t", "h", "r", "e", "a", "d", ".", "v", "2">> }

ConvIds == { None, <<"8", ":", "a", "l">>, <<"1", "9", ":", "c", "@", "t", "h", "r", "e", "a", "d", ".", "v", "2">>, <<"1", "9", ":", "x">> }

SenderIds ==
    { None, << >>, <<"8", ":", "m", "e">>, <<"8", ":", "a", "l">>, <<"8", ":", "A", "L">>, <<"1", "9", ":", "c", "@", "t", "h", "r", "e", "a", "d", ".", "v", "2">>,
      <<"1", "9", ":", "Z", "@", "T", "h", "r", "e", "a", "d">>, <<"1", "9", ":", "x">>, <<"x", "1", "9", ":", "@", "t", "h", "r", "e", "a", "d">>, <<"8", ":", "b", "o">> }

DeclaredNames == { None, << >>, <<"B", "o">> }

EnvSender ==
    { Env(TRUE, u, << Conv(c, <<"M", "y", " ", "c", "h", "a", "t">>, << Msg(T00, s, d, <<"h", "i">>) >>) >>,
          NoDir, <<"0">>, 0, 4) :
        u \in UserIds, c \in ConvIds, s \in SenderIds, d \in DeclaredNames }

(* Family 4: one message; its content and the media directory vary.        *)
Contents ==
    { <<"h", "e", "l", "l", "o">>,
      <<"<", "b", ">", "h", "i", "<", "/", "b", ">", " ", "<", "i", ">", "t", "h", "e", "r", "e", "<", "/", "i", ">">>,
      <<"<", "s", ">", "n", "o", "<", "/", "s", ">", " ", "<", "b", " ", "c", "l", "a", "s", "s", "=", "\"", "x", "\"", ">", "y", "e", "s", "<", "/", "b", ">">>,
      <<"a", "<", "b", "r", ">", "b", " ", "<", "b", ">", "c", "<", "/", "b", ">">>,
      <<"<", "s", "p", "a", "n", ">", "a", "<", "/", "s", "p", "a", "n", ">", " ", "<", "s", ">", "b", "<", "/", "s", ">">>,
      <<"<", "s", "p", "a", "n", ">", "a", "<", "/", "s", "p", "a", "n", ">">>,
      <<"x", "<", "b", "r", ">", "y">>,
      <<"<", "i", "m", "g", " ", "s", "r", "c", "=", "\"", "u", "\"", ">", " ", "<", "i", ">", "z", "<", "/", "i", ">">>,
      <<"<", "s", "s", " ", "t", "y", "p", "e", "=", "\"", "s", "m", "i", "l", "e", "\"", " ", "u", "t", "f", "=", "\"", ":", ")", "\"", ">", "(", "s", "m", "i", "l", "e", ")", "<", "/", "s", "s", ">">>,
      <<"<", "q", "u", "o", "t", "e", " ", "a", "u", "t", "h", "o", "r", "n", "a", "m", "e", "=", "\"", "A", "l", "i", "c", "e", "\"", ">", "H", "e", "l", "l", "o", "\n", "W", "o", "r", "l", "d", "<", "/", "q", "u", "o", "t", "e", ">">>,
      <<"<", "q", "u", "o", "t", "e", " ", "a", "u", "t", "h", "o", "r", "n", "a", "m", "e", "=", "\"", "A", "l", "\"", ">", "<", "l", "e", "g", "a", "c", "y", "q", "u", "o", "t", "e", ">", "[", "1", "]", " ", "<", "/", "l", "e", "g", "a", "c", "y", "q", "u", "o", "t", "e", ">", "H", "i", " ", "<", "u", ">", "x", "<", "/", "u", ">", "<", "/", "q", "u", "o", "t", "e", ">", "o", "k">>,
      <<"<", "p", "a", "r", "t", "l", "i", "s", "t", " ", "a", "l", "t", "=", "\"", "\"", ">", "<", "p", "a", "r", "t", " ", "i", "d", "e", "n", "t", "i", "t", "y", "=", "\"", "p", "\"", ">", "<", "n", "a", "m", "e", ">", "A", "l", "<", "/", "n", "a", "m", "e", ">", "<", "d", "u", "r", "a", "t", "i", "o", "n", ">", "5", "<", "/", "d", "u", "r", "a", "t", "i", "o", "n", ">", "<", "/", "p", "a", "r", "t", ">", "<", "/", "p", "a", "r", "t", "l", "i", "s", "t", ">">>,
      <<"<", "a", "d", "d", "m", "e", "m", "b", "e", "r", ">", "<", "e", "v", "e", "n", "t", "t", "i", "m", "e", ">", "9", "<", "/", "e", "v", "e", "n", "t", "t", "i", "m", "e", ">", "<", "i", "n", "i", "t", "i", "a", "t", "o", "r", ">", "8", ":", "a", "l", "<", "/", "i", "n", "i", "t", "i", "a", "t", "o", "r", ">", "<", "t", "a", "r", "g", "e", "t", ">", "8", ":", "b", "o", "<", "/", "t", "a", "r", "g", "e", "t", ">", "<", "/", "a", "d", "d", "m", "e", "m", "b", "e", "r", ">">>,
      <<"<", "U", "R", "I", "O", "b", "j", "e", "c", "t", " ", "d", "o", "c", "_", "i", "d", "=", "\"", "a", "b", "c", "\"", ">", "f", "i", "l", "e", " ", "<", "b", ">", "x", "<", "/", "b", ">", "<", "/", "U", "R", "I", "O", "b", "j", "e", "c", "t", ">">>,
      <<"<", "a", " ", "d", "o", "c", "_", "i", "d", "=", "\"", "z", "z", "\"", " ", "d", "o", "c", "_", "i", "d", "=", "\"", "a", "b", "c", "\"", "/", ">">>,
      <<"d", "o", "c", "_", "i", "d", "=", "\"", "a", "b", "c">>,
      <<"d", "o", "c", "_", "i", "d", "=", "\"", "<", "b", ">", "k", "<", "/", "b", ">", "\"">>,
      <<"d", "o", "c", "_", "i", "d", "=", "\"", "n", "o", "n", "e", "\"", " ", "<", "i", ">", "x", "<", "/", "i", ">">>,
      <<"d", "o", "c", "_", "i", "d", "=", "\"", "\"">>,
      None }

Listings ==
    { NoDir,
      << >>,
      << <<"a", "b", "c", ".", "p", "n", "g">>, <<"z", "z", ".", "t", "x", "t">> >>,
      << <<"a", "b", "c", ".", "t", "a", "r", ".", "g", "z">>, <<"a", "b", "c", ".", "J", "P", "G">>, <<"z", "z">> >>,
      << <<"a", "b", "c", ".", "J", "P", "G">>, <<"a", "b", "c", ".", "t", "a", "r", ".", "g", "z">>, <<".", "p", "n", "g">> >>,
      << <<"a", "b", "c", ".", "<", "s", ">", ".", "w", "e", "b", "p">>, <<"<", "b", ">", "k", "<", "/", "b", ">", ".", "g", "i", "f">>, <<"z", "z", ".", "j", "p", "e", "g">> >> }

EnvContent ==
    { Env(TRUE, <<"8", ":", "m", "e">>,
          << Conv(<<"1", "9", ":", "c", "@", "t", "h", "r", "e", "a", "d", ".", "v", "2">>, <<"M", "y", " ", "c", "h", "a", "t">>, << Msg(T00, <<"8", ":", "a", "l">>, None, c) >>) >>,
          l, <<"0">>, 0, 4) : c \in Contents, l \in Listings }

(* Family 5: the archive is missing or holds up to MaxConvs conversations, *)
(* some without messages or a name, and the line typed at the prompt       *)
(* varies.                                                                 *)
ConvPool ==
    << Conv(<<"8", ":", "a", "l">>, <<"A", "l">>, << Msg(T00, <<"8", ":", "a", "l">>, None, <<"h", "i">>) >>),
       Conv(<<"1", "9", ":", "c", "@", "t", "h", "r", "e", "a", "d", ".", "v", "2">>, None, << Msg(T20, <<"8", ":", "b", "o">>, <<"B", "o">>, <<"y", "o">>) >>),
       Conv(<<"8", ":", "b", "o">>, <<"B", "o">>, << Msg(TBad, <<"8", ":", "b", "o">>, None, <<"h", "o">>) >>),
       Conv(<<"8", ":", "c", "y">>, <<"C", "y">>, << Msg(T00, <<"8", ":", "c", "y">>, None, <<"h", "m">>) >>) >>

ConvLists ==
    { SubSeq(ConvPool, 1, n) : n \in 0..MaxConvs }
        \cup { << Conv(<<"8", ":", "d", "d">>, <<"D", " ", "D">>, << >>) >> }

Typed ==
    { <<"0">>, <<"1">>, <<"2">>, <<"3">>, <<"-", "1">>, <<"-", "2">>, <<"-", "3">>, <<"-", "4">>, <<" ", "1", " ">>,
      <<"+", "1">>, <<"0", "1">>, <<"a", "b", "c">>, <<"1", ".", "5">>, <<"-">>, << >> }

EnvPrompt ==
    { Env(ex, <<"8", ":", "m", "e">>, cl, NoDir, t, 0, 4) :
        ex \in BOOLEAN, cl \in ConvLists, t \in Typed }

(* Family 6: one message; its timestamp and the host's time zone and       *)
(* strftime vary.                                                          *)
Timestamps ==
    { T00, T30, TMin, TBad, << >>,
      <<"2", "0", "2", "4", "-", "0", "2", "-", "2", "9", "T", "2", "3", ":", "5", "9", ":", "5", "9", ".", "9", "9", "9", "9", "9", "9", "Z">>,
      <<"2", "0", "2", "3", "-", "0", "2", "-", "2", "9", "T", "0", "0", ":", "0", "0", ":", "0", "0", "Z">>,
      <<"2", "0", "2", "3", "-", "1", "2", "-", "3", "1", "T", "2", "0", ":", "1", "5", ":", "0", "0", ".", "5", "Z">>,
      <<"2", "0", "2", "4", "-", "1", "-", "5", "T", "7", ":", "0", "8", ":", "0", "9", "Z">>,
      <<"2", "0", "2", "4", "-", "0", "3", "-", "0", "1", "t", "1", "0", ":", "0", "0", ":", "0", "0", "z">>,
      <<"2", "0", "2", "4", "-", "0", "3", "-", "0", "1", "T", "1", "0", ":", "0", "0", ":", "6", "0", "Z">>,
      <<"2", "0", "2", "4", "-", "0", "3", "-", "0", "1", "T", "2", "4", ":", "0", "0", ":", "0", "0", "Z">>,
      <<"2", "0", "2", "4", "-", "0", "3", "-", "0", "1", "T", "1", "0", ":", "0", "0", ":", "0", "0">>,
      <<"2", "0", "2", "4", "-", "0", "3", "-", "0", "1", " ", "1", "0", ":", "0", "0", ":", "0", "0">>,
      <<"2", "0", "2", "4", "-", "0", "3", "-", "0", "1", "T", "1", "0", ":", "0", "0", ":", "0", "0", ".", "1", "2", "3", "4", "5", "6", "7", "Z">>,
      <<"0", "9", "9", "9", "-", "0", "6", "-", "0", "1", "T", "0", "0", ":", "0", "0", ":", "0", "0", "Z">>,
      <<"9", "9", "9", "9", "-", "1", "2", "-", "3", "1", "T", "2", "3", ":", "5", "9", ":", "5", "9", "Z">> }

UtcOffsets == {0 - 18000, 0, 19800}

YearWidths == {1, 4}

EnvTimestamp ==
    { Env(TRUE, <<"8", ":", "m", "e">>,
          << Conv(<<"1", "9", ":", "c", "@", "t", "h", "r", "e", "a", "d", ".", "v", "2">>, <<"M", "y", " ", "c", "h", "a", "t">>, << Msg(ts, <<"8", ":", "a", "l">>, None, <<"h", "i">>) >>) >>,
          NoDir, <<"0">>, off, w) :
        ts \in Timestamps, off \in UtcOffsets, w \in YearWidths }

Envs == EnvMerge \cup EnvEdge \cup EnvSender \cup EnvContent \cup EnvPrompt
            \cup EnvTimestamp

-----------------------------------------------------------------------------
(* The state of one run of main, and of one round trip of a timestamp      *)

VARIABLES
    env,             \* the archive, the media directory, stdin and the host
    pc,              \* where main is
    user_id,         \* data.get("userId", "")
    convs,           \* data.get("conversations", [])
    choice,          \* int(choice)
    conversation,    \* the 1-based position of convs[choice] in convs, 0 before
    media_files,     \* the media mapping
    processed_msgs,
    grouped,
    merged_grouped,
    stdout,          \* the messages printed
    out_file,        \* the output file: None until it is opened
    raised,          \* an exception left main
    rt               \* one round trip through parse_iso_to_local and format_dt

vars ==
    <<env, pc, user_id, convs, choice, conversation, media_files,
      processed_msgs, grouped, merged_grouped, stdout, out_file, raised, rt>>

mainvars ==
    <<env, pc, user_id, convs, choice, conversation, media_files,
      processed_msgs, grouped, merged_grouped, stdout, out_file, raised>>

NoFile == [name |-> None, text |-> None]

RtIdle ==
    [pc |-> "idle", ts |-> << >>, utcoffset |-> 0, ywidth |-> 4,
     first |-> NoneDT, shown |-> << >>, second |-> NoneDT, shown2 |-> << >>]

InitMain(e) ==
    /\ env = e
    /\ pc = "start"
    /\ user_id = << >>
    /\ convs = << >>
    /\ choice = 0
    /\ conversation = 0
    /\ media_files = << >>
    /\ processed_msgs = << >>
    /\ grouped = << >>
    /\ merged_grouped = << >>
    /\ stdout = << >>
    /\ out_file = NoFile
    /\ raised = FALSE

Init ==
    /\ \E e \in Envs : InitMain(e)
    /\ rt = RtIdle

(* Lines 44-46: messages.json is not there.                                *)
MsgFileMissing ==
    /\ pc = "start"
    /\ ~env.exists
    /\ stdout' = Append(stdout, <<"m", "e", "s", "s", "a", "g", "e", "s", ".", "j", "s", "o", "n", " ", "n", "o", "t", " ", "f", "o", "u", "n", "d", ".">>)
    /\ pc' = "done"
    /\ UNCHANGED <<env, user_id, convs, choice, conversation, media_files,
                   processed_msgs, grouped, merged_grouped, out_file, raised, rt>>

(* Lines 48-56: the archive is read and holds no conversation.             *)
NoConversations ==
    /\ pc = "start"
    /\ env.exists
    /\ env.conversations = << >>
    /\ user_id' = env.userId
    /\ convs' = env.conversations
    /\ stdout' = Append(stdout, <<"N", "o", " ", "c", "o", "n", "v", "e", "r", "s", "a", "t", "i", "o", "n", "s", " ", "f", "o", "u", "n", "d", ".">>)
    /\ pc' = "done"
    /\ UNCHANGED <<env, choice, conversation, media_files, processed_msgs,
                   grouped, merged_grouped, out_file, raised, rt>>

(* The line printed for conversation i (0-based), without its member list. *)
ListingLine(i, c) ==
    <<"[">> \o Str(i) \o <<"]", " ">>
        \o (IF Truthy(c.displayName) THEN c.displayName ELSE <<"U", "n", "n", "a", "m", "e", "d">>)

(* Lines 48-72: the archive is read and its conversations are listed.      *)
ListConversations ==
    /\ pc = "start"
    /\ env.exists
    /\ env.conversations # << >>
    /\ user_id' = env.userId
    /\ convs' = env.conversations
    /\ stdout' = stdout \o [i \in 1..Len(env.conversations) |->
                               ListingLine(i - 1, env.conversations[i])]
    /\ pc' = "prompt"
    /\ UNCHANGED <<env, choice, conversation, media_files, processed_msgs,
                   grouped, merged_grouped, out_file, raised, rt>>

(* The conversation lines 74-77 select for the line typed: 0 when int()    *)
(* raises ValueError or convs[choice] raises IndexError.                   *)
Selected(typed, n) ==
    LET c == ParseInt(typed)
    IN  IF c.ok THEN ListIndex(c.val, n) ELSE 0

(* Lines 74-80: the line typed selects no conversation.                    *)
InvalidChoice ==
    /\ pc = "prompt"
    /\ Selected(env.stdin, Len(convs)) = 0
    /\ stdout' = Append(stdout, <<"I", "n", "v", "a", "l", "i", "d", " ", "c", "h", "o", "i", "c", "e", ".">>)
    /\ pc' = "done"
    /\ UNCHANGED <<env, user_id, convs, choice, conversation, media_files,
                   processed_msgs, grouped, merged_grouped, out_file, raised, rt>>

(* Lines 74-85: the conversation selected has no message.                  *)
NoMessages ==
    /\ pc = "prompt"
    /\ Selected(env.stdin, Len(convs)) # 0
    /\ convs[Selected(env.stdin, Len(convs))].MessageList = << >>
    /\ choice' = ParseInt(env.stdin).val
    /\ conversation' = Selected(env.stdin, Len(convs))
    /\ stdout' = Append(stdout, <<"N", "o", " ", "m", "e", "s", "s", "a", "g", "e", "s", " ", "f", "o", "u", "n", "d", ".">>)
    /\ pc' = "done"
    /\ UNCHANGED <<env, user_id, convs, media_files, processed_msgs, grouped,
                   merged_grouped, out_file, raised, rt>>

(* Lines 74-94: a conversation with messages is selected and the media     *)
(* directory is listed.                                                    *)
SelectConversation ==
    /\ pc = "prompt"
    /\ Selected(env.stdin, Len(convs)) # 0
    /\ convs[Selected(env.stdin, Len(convs))].MessageList # << >>
    /\ choice' = ParseInt(env.stdin).val
    /\ conversation' = Selected(env.stdin, Len(convs))
    /\ media_files' = IF env.listdir = NoDir THEN << >> ELSE MediaFiles(env.listdir)
    /\ pc' = "selected"
    /\ UNCHANGED <<env, user_id, convs, processed_msgs, grouped, merged_grouped,
                   stdout, out_file, raised, rt>>

message_list == convs[conversation].MessageList

conversation_id == convs[conversation].id

(* conversation.get("displayName", f"chat_{choice}") *)
chat_name ==
    IF convs[conversation].displayName = None THEN <<"c", "h", "a", "t", "_">> \o Str(choice)
    ELSE convs[conversation].displayName

(* parse_iso_to_local raises OverflowError on some message.                *)
ParseRaises ==
    \E k \in 1..Len(message_list) :
        parse_iso_to_local(message_list[k].originalarrivaltime, env.utcoffset).raised

(* Lines 185-209: every message is processed.                              *)
ProcessMessages ==
    /\ pc = "selected"
    /\ ~ParseRaises
    /\ processed_msgs' =
           [k \in 1..Len(message_list) |->
               Processed(message_list[k], k, user_id, conversation_id,
                         media_files, env.utcoffset)]
    /\ pc' = "processed"
    /\ UNCHANGED <<env, user_id, convs, choice, conversation, media_files,
                   grouped, merged_grouped, stdout, out_file, raised, rt>>

(* Lines 185-188: the OverflowError of a timestamp ends the run.           *)
ProcessRaises ==
    /\ pc = "selected"
    /\ ParseRaises
    /\ raised' = TRUE
    /\ pc' = "done"
    /\ UNCHANGED <<env, user_id, convs, choice, conversation, media_files,
                   processed_msgs, grouped, merged_grouped, stdout, out_file, rt>>

(* Line 211 *)
SortMessages ==
    /\ pc = "processed"
    /\ processed_msgs' = SortByKey(processed_msgs)
    /\ pc' = "sorted"
    /\ UNCHANGED <<env, user_id, convs, choice, conversation, media_files,
                   grouped, merged_grouped, stdout, out_file, raised, rt>>

(* Lines 213-228 *)
GroupMessages ==
    /\ pc = "sorted"
    /\ grouped' = Grouped(processed_msgs)
    /\ pc' = "grouped"
    /\ UNCHANGED <<env, user_id, convs, choice, conversation, media_files,
                   processed_msgs, merged_grouped, stdout, out_file, raised, rt>>

(* Lines 230-258 *)
MergeBlocks ==
    /\ pc = "grouped"
    /\ merged_grouped' = Merged(grouped)
    /\ pc' = "merged"
    /\ UNCHANGED <<env, user_id, convs, choice, conversation, media_files,
                   processed_msgs, grouped, stdout, out_file, raised, rt>>

(* Lines 260-280 *)
WriteOutput ==
    /\ pc = "merged"
    /\ out_file' = [name |-> Underscored(chat_name) \o <<".", "m", "d">>,
                    text |-> OutputText(chat_name, merged_grouped, env.ywidth)]
    /\ stdout' = Append(stdout, <<"E", "x", "p", "o", "r", "t", "e", "d", " ", "t", "o", " ">> \o Underscored(chat_name) \o <<".", "m", "d">>)
    /\ pc' = "done"
    /\ UNCHANGED <<env, user_id, convs, choice, conversation, media_files,
                   processed_msgs, grouped, merged_grouped, raised, rt>>

Next ==
    \/ MsgFileMissing
    \/ NoConversations
    \/ ListConversations
    \/ InvalidChoice
    \/ NoMessages
    \/ SelectConversation
    \/ ProcessMessages
    \/ ProcessRaises
    \/ SortMessages
    \/ GroupMessages
    \/ MergeBlocks
    \/ WriteOutput

Spec == Init /\ [][Next]_vars

-----------------------------------------------------------------------------
(* A timestamp taken through parse_iso_to_local, format_dt and             *)
(* parse_iso_to_local again.  The program makes the first two steps (lines *)
(* 188 and 267); the third is the composition the round trip is about.     *)

InitRoundTrip ==
    /\ InitMain(Env(FALSE, << >>, << >>, NoDir, << >>, 0, 4))
    /\ \E ts \in Timestamps, off \in UtcOffsets, w \in YearWidths :
           rt = [RtIdle EXCEPT !.pc = "start", !.ts = ts,
                               !.utcoffset = off, !.ywidth = w]

Normalize ==
    /\ rt.pc = "start"
    /\ LET r == parse_iso_to_local(rt.ts, rt.utcoffset)
       IN  rt' = [rt EXCEPT !.first = r.dt,
                            !.pc = IF r.raised THEN "raised"
                                   ELSE IF r.dt = NoneDT THEN "none"
                                   ELSE "parsed"]
    /\ UNCHANGED mainvars

Format ==
    /\ rt.pc = "parsed"
    /\ rt' = [rt EXCEPT !.shown = format_dt(rt.first, rt.ywidth), !.pc = "shown"]
    /\ UNCHANGED mainvars

(* The formatted string is normalized again and, if that gives a          *)
(* timestamp, formatted again.                                             *)
NormalizeAgain ==
    /\ rt.pc = "shown"
    /\ LET r == parse_iso_to_local(rt.shown, rt.utcoffset)
       IN  rt' = [rt EXCEPT !.second = r.dt,
                            !.shown2 = IF r.dt = NoneDT THEN << >>
                                       ELSE format_dt(r.dt, rt.ywidth),
                            !.pc = IF r.raised THEN "raised2"
                                   ELSE IF r.dt = NoneDT THEN "none2"
                                   ELSE "parsed2"]
    /\ UNCHANGED mainvars

NextRoundTrip == Normalize \/ Format \/ NormalizeAgain

SpecRoundTrip == InitRoundTrip /\ [][NextRoundTrip]_vars

-----------------------------------------------------------------------------
(* Properties                                                              *)

Ran(stage) ==
    CASE stage = "processed" ->
             pc \in {"processed", "sorted", "grouped", "merged"}
                 \/ (pc = "done" /\ out_file # NoFile)
      [] stage = "sorted" ->
             pc \in {"sorted", "grouped", "merged"} \/ (pc = "done" /\ out_file # NoFile)
      [] stage = "grouped" ->
             pc \in {"grouped", "merged"} \/ (pc = "done" /\ out_file # NoFile)
      [] stage = "merged" ->
             pc = "merged" \/ (pc = "done" /\ out_file # NoFile)

(* b comes exactly n whole seconds after a.                                *)
ExactlyApart(a, b, n) ==
    TimeDelta(a, b) = [days |-> 0, seconds |-> n, microseconds |-> 0]

(* The entry of merged block g that holds the message of position pos.     *)
EntryOf(g, pos) ==
    CHOOSE e \in 1..Len(g.merged_block) :
        \E j \in 1..Len(g.merged_block[e].sub_msgs) :
            g.merged_block[e].sub_msgs[j].pos = pos

(* C1: two messages adjacent in a sender block, both with a timestamp, are *)
(* in the same merged group when their timestamps are exactly 29 seconds   *)
(* apart and in different merged groups when they are exactly 30 seconds   *)
(* apart, whatever precedes them in the block.                             *)
C1_AdjacentPairDecidesMerge ==
    Ran("merged") =>
        \A b \in 1..Len(grouped) :
            \A i \in 1..(Len(grouped[b].block) - 1) :
                LET x == grouped[b].block[i]
                    y == grouped[b].block[i + 1]
                    g == merged_grouped[b]
                IN  (x.dt # NoneDT /\ y.dt # NoneDT) =>
                        /\ ExactlyApart(x.dt, y.dt, 29) =>
                               EntryOf(g, x.pos) = EntryOf(g, y.pos)
                        /\ ExactlyApart(x.dt, y.dt, 30) =>
                               EntryOf(g, x.pos) # EntryOf(g, y.pos)

(* The line typed is an integer in 0..n-1.                                 *)
IndexInRange(typed, n) ==
    ParseInt(typed).ok /\ ParseInt(typed).val \in 0..(n - 1)

(* C2: at the prompt for an index in 0..N-1, a line that is no integer or  *)
(* an integer outside 0..N-1 ends the run with a message, no conversation  *)
(* selected and no output file.                                            *)
C2_InvalidChoiceAborts ==
    (pc # "start" /\ convs # << >> /\ ~IndexInRange(env.stdin, Len(convs))) =>
        /\ conversation = 0
        /\ out_file = NoFile
        /\ pc \in {"prompt", "done"}
        /\ pc = "done" => stdout[Len(stdout)] = <<"I", "n", "v", "a", "l", "i", "d", " ", "c", "h", "o", "i", "c", "e", ".">>

(* The raw message a processed message was made from.                      *)
RawOf(x) == message_list[x.pos]

(* C3 as stated: a message whose sender identifier equals the identifier   *)
(* of the selected conversation is named "System", whatever the archive's  *)
(* userId and the declared display name are.                               *)
C3_ConversationSenderIsSystem ==
    Ran("processed") =>
        \A k \in 1..Len(processed_msgs) :
            RawOf(processed_msgs[k]).from = conversation_id =>
                processed_msgs[k].sender_disp = <<"S", "y", "s", "t", "e", "m">>

(* C3 as amended: such a message is named "System" whatever the declared   *)
(* display name is, unless its sender identifier is also the archive's     *)
(* userId, and then it is named "You".                                     *)
C3_ConversationSenderIsSystemUnlessUser ==
    Ran("processed") =>
        \A k \in 1..Len(processed_msgs) :
            RawOf(processed_msgs[k]).from = conversation_id =>
                processed_msgs[k].sender_disp =
                    IF RawOf(processed_msgs[k]).from = user_id
                    THEN <<"Y", "o", "u">> ELSE <<"S", "y", "s", "t", "e", "m">>

C3_Witness ==
    /\ Ran("processed")
    /\ \E k \in 1..Len(processed_msgs) :
           /\ RawOf(processed_msgs[k]).from = conversation_id
           /\ Truthy(conversation_id)
           /\ RawOf(processed_msgs[k]).from # user_id
           /\ Truthy(RawOf(processed_msgs[k]).displayName)
           /\ processed_msgs[k].sender_disp = <<"S", "y", "s", "t", "e", "m">>

(* a and b are equal up to the case of their letters.                      *)
SameIgnoringCase(a, b) ==
    /\ Len(a) = Len(b)
    /\ \A k \in 1..Len(a) : LowerChar(a[k]) = LowerChar(b[k])

(* s holds pat somewhere, up to the case of its letters.                   *)
HoldsIgnoringCase(s, pat) ==
    \E p \in 1..Len(s) :
        /\ p + Len(pat) - 1 <= Len(s)
        /\ SameIgnoringCase(SubSeq(s, p, p + Len(pat) - 1), pat)

(* C4: the display name is "You" when the sender identifier is the         *)
(* archive's userId; otherwise "System" when the sender identifier is      *)
(* empty, is the conversation's identifier up to case, or starts with      *)
(* "19:" and holds "@thread" (up to case); otherwise the declared display  *)
(* name when there is one, else the sender identifier.                     *)
C4_DisplayNamePrecedence ==
    Ran("processed") =>
        \A k \in 1..Len(processed_msgs) :
            LET m    == RawOf(processed_msgs[k])
                name == processed_msgs[k].sender_disp
                empty  == m.from = None \/ m.from = << >>
                system ==
                    \/ empty
                    \/ conversation_id # None /\ SameIgnoringCase(m.from, conversation_id)
                    \/ /\ Len(m.from) >= 3
                       /\ SameIgnoringCase(SubSeq(m.from, 1, 3), <<"1", "9", ":">>)
                       /\ HoldsIgnoringCase(m.from, <<"@", "t", "h", "r", "e", "a", "d">>)
            IN  /\ m.from = user_id => name = <<"Y", "o", "u">>
                /\ (m.from # user_id /\ system) => name = <<"S", "y", "s", "t", "e", "m">>
                /\ (m.from # user_id /\ ~system) =>
                       name = IF m.displayName # None /\ m.displayName # << >>
                              THEN m.displayName ELSE m.from

C4_Witness ==
    /\ Ran("processed")
    /\ \E k \in 1..Len(processed_msgs) :
           /\ RawOf(processed_msgs[k]).from = <<"1", "9", ":", "Z", "@", "T", "h", "r", "e", "a", "d">>
           /\ RawOf(processed_msgs[k]).displayName = <<"B", "o">>
           /\ user_id = <<"8", ":", "m", "e">>
           /\ processed_msgs[k].sender_disp = <<"S", "y", "s", "t", "e", "m">>

(* C5: the sort puts every message without a timestamp before every        *)
(* message with one, orders the messages with a timestamp by ascending     *)
(* timestamp, and keeps the archive's order among messages with equal      *)
(* timestamps and among the messages without one.                          *)
C5_SortNullsFirstStable ==
    Ran("sorted") =>
        \A i \in 1..Len(processed_msgs) : \A j \in (i + 1)..Len(processed_msgs) :
            LET x == processed_msgs[i]
                y == processed_msgs[j]
            IN  /\ y.dt = NoneDT => x.dt = NoneDT
                /\ (x.dt # NoneDT /\ y.dt # NoneDT) => DtLeq(x.dt, y.dt)
                /\ x.dt = y.dt => x.pos < y.pos

(* The link or embed the claim gives for the first doc_id of a content.    *)
FirstDocId(content) ==
    LET start == Find(content, DocIdAttr, 1) + Len(DocIdAttr)
    IN  Slice(content, start, Find(content, <<"\"">>, start) - 1)

HasDocId(content) ==
    /\ content # None
    /\ Contains(content, DocIdAttr)
    /\ Find(content, <<"\"">>, Find(content, DocIdAttr, 1) + Len(DocIdAttr)) # 0

LastDot(fname) ==
    CHOOSE p \in 1..Len(fname) :
        fname[p] = "." /\ \A q \in (p + 1)..Len(fname) : fname[q] # "."

(* The extension of a file name, lower-cased; empty for a name without a   *)
(* dot or with dots at its start only.                                     *)
ExtensionOf(fname) ==
    IF \A p \in 1..Len(fname) : fname[p] # "." THEN << >>
    ELSE IF \A p \in 1..(LastDot(fname) - 1) : fname[p] = "." THEN << >>
    ELSE Lower(SubSeq(fname, LastDot(fname), Len(fname)))

Reference(id) ==
    IF \A k \in 1..Len(media_files) : media_files[k][1] # id
    THEN <<"[">> \o id \o <<"]", "(", "m", "e", "d", "i", "a", "/">> \o id \o <<")">>
    ELSE LET file == media_files[CHOOSE k \in 1..Len(media_files) :
                                     media_files[k][1] = id][2]
         IN  IF ExtensionOf(file) \in { <<".", "p", "n", "g">>, <<".", "j", "p", "g">>, <<".", "j", "p", "e", "g">>, <<".", "g", "i", "f">>, <<".", "w", "e", "b", "p">> }
             THEN <<"!", "[">> \o file \o <<"]", "(", "m", "e", "d", "i", "a", "/">> \o file \o <<")">>
             ELSE <<"[">> \o file \o <<"]", "(", "m", "e", "d", "i", "a", "/">> \o file \o <<")">>

(* C6 as stated: the converted content of a message whose content holds    *)
(* doc_id="<id>" is exactly the reference of the first such id: the link   *)
(* [id](media/id) when id is no key of the media mapping, the embed        *)
(* ![file](media/file) when the mapped file has an image extension, the    *)
(* link [file](media/file) otherwise.                                      *)
C6_DocIdContentIsReference ==
    Ran("processed") =>
        \A k \in 1..Len(processed_msgs) :
            LET c == RawOf(processed_msgs[k]).content
            IN  HasDocId(c) => processed_msgs[k].content = Reference(FirstDocId(c))

(* C6 as amended: the converted content is the Rich-Text Converter's       *)
(* output for that reference and holds nothing else of the original        *)
(* content; it is exactly the reference when the reference holds no "<".   *)
C6_DocIdContentIsConvertedReference ==
    Ran("processed") =>
        \A k \in 1..Len(processed_msgs) :
            LET c   == RawOf(processed_msgs[k]).content
                ref == Reference(FirstDocId(c))
            IN  HasDocId(c) =>
                    /\ processed_msgs[k].content = convert_rich_text(ref)
                    /\ ~Contains(ref, <<"<">>) => processed_msgs[k].content = ref

C6_Witness ==
    /\ Ran("processed")
    /\ \E k \in 1..Len(processed_msgs) :
           /\ RawOf(processed_msgs[k]).content = <<"<", "U", "R", "I", "O", "b", "j", "e", "c", "t", " ", "d", "o", "c", "_", "i", "d", "=", "\"", "a", "b", "c", "\"", ">", "f", "i", "l", "e", " ", "<", "b", ">", "x", "<", "/", "b", ">", "<", "/", "U", "R", "I", "O", "b", "j", "e", "c", "t", ">">>
           /\ processed_msgs[k].content = <<"!", "[", "a", "b", "c", ".", "J", "P", "G", "]", "(", "m", "e", "d", "i", "a", "/", "a", "b", "c", ".", "J", "P", "G", ")">>

UnrecognizedTags == { <<"<", "s", "p", "a", "n", ">">>, <<"<", "/", "s", "p", "a", "n", ">">>, <<"<", "b", "r", ">">> }

(* C7: a tag outside quote, partlist, addmember, ss, b, i and s, such as   *)
(* <span> or <br>, is in the converted content as often as in the content: *)
(* no bold, italic or strikethrough match consumes it.                     *)
C7_UnrecognizedTagsVerbatim ==
    Ran("processed") =>
        \A k \in 1..Len(processed_msgs) :
            LET c == RawOf(processed_msgs[k]).content
            IN  (c # None /\ ~Contains(c, DocIdAttr)) =>
                    \A t \in UnrecognizedTags :
                        Count(processed_msgs[k].content, t) = Count(c, t)

(* The positions, in the archive, of the messages of a list of items.      *)
Positions(items) == [k \in 1..Len(items) |-> items[k].pos]

(* C9: the blocks are the maximal runs of one sender in the sorted list:   *)
(* no block is empty, consecutive blocks differ in sender, the messages of *)
(* a block have the block's sender, and the blocks in order hold the       *)
(* sorted messages, each once.                                             *)
C9_BlocksAreMaximalRuns ==
    Ran("grouped") =>
        /\ \A b \in 1..Len(grouped) : grouped[b].block # << >>
        /\ \A b \in 1..(Len(grouped) - 1) : grouped[b].sender # grouped[b + 1].sender
        /\ \A b \in 1..Len(grouped) : \A i \in 1..Len(grouped[b].block) :
               message_list[grouped[b].block[i].pos].from = grouped[b].sender
        /\ Concat([b \in 1..Len(grouped) |-> Positions(grouped[b].block)])
               = Positions(processed_msgs)

C9_Witness ==
    /\ pc = "grouped"
    /\ Len(grouped) = 2
    /\ Len(grouped[1].block) = 2
    /\ Len(processed_msgs) = 3

(* C10: an entry of a merged block has the timestamp of its first message; *)
(* every message of the entry has a timestamp less than 30 seconds after   *)
(* it; a message without a timestamp is alone in its entry.                *)
C10_WindowAnchoredAtFirst ==
    Ran("merged") =>
        \A g \in 1..Len(merged_grouped) :
            \A e \in 1..Len(merged_grouped[g].merged_block) :
                LET entry == merged_grouped[g].merged_block[e]
                IN  /\ entry.sub_msgs # << >>
                    /\ entry.dt = entry.sub_msgs[1].dt
                    /\ \A j \in 2..Len(entry.sub_msgs) :
                           /\ entry.dt # NoneDT
                           /\ entry.sub_msgs[j].dt # NoneDT
                           /\ TimeDelta(entry.dt, entry.sub_msgs[j].dt).days = 0
                           /\ TimeDelta(entry.dt, entry.sub_msgs[j].dt).seconds < 30

C10_Witness ==
    /\ pc = "merged"
    /\ \E g \in 1..Len(merged_grouped) :
           /\ Len(merged_grouped[g].merged_block) = 2
           /\ merged_grouped[g].merged_block[1].dt = NoneDT
           /\ Len(merged_grouped[g].merged_block[2].sub_msgs) = 2

(* C8 as stated: the formatted string of a timestamp in either format      *)
(* normalizes again, to a timestamp that formats to the same string.       *)
C8_FormattedStringRoundTrips ==
    rt.pc \in {"none2", "parsed2", "raised2"} =>
        rt.pc = "parsed2" /\ rt.shown2 = rt.shown

(* C8 as amended: the formatted string, "YYYY-MM-DD HH:MM:SS", is in       *)
(* neither accepted format, and normalizing it gives no timestamp.         *)
C8_FormattedStringIsNoTimestamp ==
    /\ rt.pc \in {"shown", "none2", "parsed2", "raised2"} =>
           /\ Len(rt.shown) >= 16
           /\ rt.shown[Len(rt.shown) - 8] = " "
           /\ \A k \in 1..Len(rt.shown) : rt.shown[k] \in Digits \cup {"-", " ", ":"}
    /\ rt.pc \in {"none2", "parsed2", "raised2"} =>
           rt.pc = "none2" /\ rt.second = NoneDT

C8_Witness ==
    /\ rt.pc = "none2"
    /\ rt.ts = <<"2", "0", "2", "3", "-", "1", "2", "-", "3", "1", "T", "2", "0", ":", "1", "5", ":", "0", "0", ".", "5", "Z">>
    /\ rt.utcoffset = 19800
    /\ rt.shown = <<"2", "0", "2", "4", "-", "0", "1", "-", "0", "1", " ", "0", "1", ":", "4", "5", ":", "0", "0">>

=============================================================================
